---- MODULE Spec2Model ----
(***************************************************************************)
(* State-machine model of the export pipeline of sv_tools_template:        *)
(* js/core/ExportManager.js (handleExport, exportPNG, exportMP4,           *)
(* exportPNGSequence, renderToCanvas) together with the pieces of          *)
(* CanvasManager.js and main.js the pipeline reads.                        *)
(*                                                                         *)
(* The browser is single-threaded: every action below is one task of the   *)
(* event loop (a click handler, a timer callback, a MediaRecorder event    *)
(* task, the resumption of an awaited promise) run to completion.          *)
(***************************************************************************)
EXTENDS Integers, Sequences, FiniteSets, TLC

\* ------------------------------------------------------------------ bounds

\* asynchronous export calls (exportMP4 / exportPNGSequence past their guard)
\* one run may make
MaxExports == 2
\* still images one run may download
MaxStills == 1
\* timeslice chunks one recorder may deliver before it is stopped
MaxChunks == 1
\* animations one run may load after the default one
MaxLoads == 1

\* ------------------------------------------------------- program constants

\* ExportManager.js:206
frameRate == 60
\* ExportManager.js:44, the fallback of `parseInt(...) || 5`
DefaultDuration == 5

\* ExportManager.js:79-87, in preference order
formats ==
  << [mimeType |-> "video/mp4; codecs=avc1.42E01E", extension |-> "mp4"],
     [mimeType |-> "video/mp4; codecs=avc1.4D4028", extension |-> "mp4"],
     [mimeType |-> "video/mp4; codecs=avc1.640028", extension |-> "mp4"],
     [mimeType |-> "video/mp4",                     extension |-> "mp4"],
     [mimeType |-> "video/webm; codecs=vp9,opus",   extension |-> "webm"],
     [mimeType |-> "video/webm; codecs=vp8,opus",   extension |-> "webm"],
     [mimeType |-> "video/webm",                    extension |-> "webm"] >>

FormatIds == 1..Len(formats)

\* the value of #exportFormat
ExportFormats == {"png", "mp4", "png-sequence"}

\* what #exportDuration may hold when Start is clicked: nothing, or a number,
\* which the user may have typed below the range of the input
EmptyField == [kind |-> "empty", n |-> 0]
NumberField(k) == [kind |-> "number", n |-> k]
DurationField == {EmptyField} \cup {NumberField(k) : k \in {-1, 0, 1, 2, 3}}
\* the values used where two exports race
RaceFields == {NumberField(1), NumberField(2)}

\* hosts the racing exports run on: each is the set of formats
\* MediaRecorder.isTypeSupported accepts (all of them, the last fallback
\* only, none)
Hosts == {FormatIds, {Len(formats)}, {}}

\* ------------------------------------------------------------------- state

VARIABLES
  supported,        \* host: the ids of the formats isTypeSupported accepts
  fields,           \* user: the values #exportDuration takes in this run
  quota,            \* asynchronous export calls this run may still make
  isExporting,      \* ExportManager.isExporting
  mediaRecorder,    \* ExportManager.mediaRecorder: 0 (null) or the id of the
                    \* call whose recorder it references
  recordedChunks,   \* ExportManager.recordedChunks
  exportBtn,        \* #export-btn: [text, disabled]
  currentAnimation, \* CanvasManager.currentAnimation: "none" (null) or the id
                    \* of the animation it refers to
  animations,       \* the animation instances: how many AnimationRegistry.create
                    \* has made, the ones init() was called on, and which one
                    \* CanvasManager.currentAnimation, AnimationControlUI
                    \* .currentAnimation and the parameter controls refer to
                    \* (numbered from 1, 0 for none)
  controls,         \* user: the controls of the page operated in this run
  isTransparent,    \* CanvasManager.isTransparent
  backgroundImage,  \* CanvasManager.backgroundImage is set (not null)
  foregroundImage,  \* CanvasManager.foregroundImage is set (not null)
  width,            \* CanvasManager.width
  height,           \* CanvasManager.height
  calls,            \* one record per exportMP4 / exportPNGSequence call that
                    \* passed its guard: the call's closure and the objects
                    \* it created (stream, recorder, timers, frame loop)
  stills            \* the downloads made by exportPNG

\* the canvas settings the frame loop reads besides the animation
settings == << isTransparent, backgroundImage, foregroundImage, width, height >>

vars == << supported, fields, controls, settings, quota, isExporting, mediaRecorder,
           recordedChunks, exportBtn, currentAnimation, animations, calls, stills >>

CallIds == 1..Len(calls)

\* ---------------------------------------------------------- pure functions

\* parseInt(value) of handleExport: NaN for an empty field
ParseInt(v) ==
  IF v.kind = "number" THEN [nan |-> FALSE, n |-> v.n] ELSE [nan |-> TRUE, n |-> 0]

\* `parseInt(...) || 5`: NaN and 0 are falsy
DurationOf(v) ==
  LET p == ParseInt(v) IN IF p.nan \/ p.n = 0 THEN DefaultDuration ELSE p.n

\* mutant of SelectFormat: the loop without its `break` keeps the last
\* supported entry
SelectLastSupported(sup) ==
  IF sup \cap FormatIds = {} THEN 0
  ELSE CHOOSE i \in sup \cap FormatIds : \A j \in sup \cap FormatIds : j <= i

\* the loop of exportMP4 over `formats`: the first entry the host supports,
\* 0 when selectedFormat stays null
RECURSIVE FirstSupported(_, _)
FirstSupported(i, sup) ==
  IF i > Len(formats) THEN 0
  ELSE IF i \in sup THEN i
  ELSE FirstSupported(i + 1, sup)

SelectFormat(sup) == FirstSupported(1, sup)

\* Math.ceil(duration * frameRate); duration is an integer (parseInt), so the
\* product is one and Math.ceil returns it
TotalFrames(duration) == duration * frameRate

\* renderToCanvas: progress = frame / totalFrames, as a fraction
Progress(frame, totalFrames) == [num |-> frame, den |-> totalFrames]

\* mutant of FrameTime: the time of the frame after this one
FrameTimeOfNextFrame(frame, totalFrames, duration) ==
  [num |-> (frame + 1) * duration, den |-> totalFrames]

\* renderToCanvas: time = progress * duration, as a fraction
FrameTime(frame, totalFrames, duration) ==
  [num |-> Progress(frame, totalFrames).num * duration,
   den |-> Progress(frame, totalFrames).den]

\* String(n) for n >= 0, as its decimal digits
RECURSIVE Digits(_)
Digits(n) == IF n < 10 THEN << n >> ELSE Digits(n \div 10) \o << n % 10 >>

\* s.padStart(len, '0')
RECURSIVE PadStart(_, _)
PadStart(s, len) == IF Len(s) >= len THEN s ELSE PadStart(<< 0 >> \o s, len)

\* `frame_${String(index + 1).padStart(4, '0')}.png` for the 0-based forEach
\* index; the argument here is the 1-based position in `frames`
FrameFileName(pos) ==
  [stem |-> "frame_", number |-> PadStart(Digits((pos - 1) + 1), 4), ext |-> ".png"]

ReadmeFileName == [stem |-> "README", number |-> << >>, ext |-> ".txt"]

\* the labels #export-btn takes
IdleText == [label |-> "Export", a |-> 0, b |-> 0]
RecordingText == [label |-> "Recording...", a |-> 0, b |-> 0]
CountdownText(c) == [label |-> "Recording... s", a |-> c, b |-> 0]
FrameText(f, total) == [label |-> "Frame /", a |-> f, b |-> total]
ZipText == [label |-> "Creating ZIP...", a |-> 0, b |-> 0]

\* the messages of the alert() calls made on failure
StartFailedAlert == "Video export failed"
RecordingErrorAlert == "Recording error occurred. Please try again."
SaveFailedAlert == "Error saving video file. Please try again."
SequenceFailedAlert == "PNG sequence export failed. Please try again."

NoReadme == [frames |-> 0, duration |-> 0, frameRate |-> 0,
             alpha |-> FALSE, width |-> 0, height |-> 0]

NoSize == [width |-> 0, height |-> 0]

NoRender == [frame |-> -1, called |-> FALSE, time |-> [num |-> 0, den |-> 1]]

\* the closure of a call that has just passed its guard
NewCall(kind, duration, originalText) ==
  [ kind |-> kind, duration |-> duration, originalText |-> originalText,
    pc |-> "start",
    \* exportMP4
    stream |-> "none",        \* none | live | stopped (its tracks)
    selectedFormat |-> 0,
    recorder |-> "none",      \* none | inactive | recording
    stopTask |-> FALSE,       \* stop() was called, its event task is queued
    timer |-> -1,             \* seconds until the stop timer fires, -1: none
    progressInterval |-> FALSE,
    countdown |-> 0,
    delivered |-> 0,          \* dataavailable events of the live recorder
    emitted |-> << >>,        \* those events, in the order they were fired
    errored |-> FALSE,        \* the recorder fired an error event
    \* exportPNGSequence
    totalFrames |-> 0,
    frame |-> 0,
    frames |-> << >>,         \* the captured frames, by frame index
    render |-> NoRender,      \* the last renderToCanvas
    steps |-> << >>,          \* the canvas calls that built the last frame
    raster |-> NoSize,        \* the size given to the export canvas
    drawSize |-> NoSize,      \* the size the calls of the last frame were given
    folderName |-> "",        \* the name of the folder in the ZIP
    archive |-> << >>,        \* the entries added to the ZIP folder
    readme |-> NoReadme,      \* the content of README.txt
    \* both
    settled |-> FALSE,        \* the promise the async call returned has settled
    alerts |-> << >>,         \* the failure messages the call has shown
    artifacts |-> << >> ]     \* the downloads the call triggered

\* --------------------------------------------------------------- exportMP4

\* where the try block of exportMP4 may throw, besides the explicit
\* 'No supported video format found'
ThrowPoints == {"none", "captureStream", "MediaRecorder", "start"}

\* setTimeout(_, duration * 1000), in seconds; a negative delay is 0
TimerDelay(duration) == IF duration > 0 THEN duration ELSE 0

\* exportMP4(duration), the whole synchronous call; the function is async and
\* awaits nothing, so the promise it returns is resolved when it returns
ExportMP4(duration) ==
  /\ ~isExporting
  /\ quota > 0
  /\ \E throwAt \in ThrowPoints :
       LET e == Len(calls) + 1
           originalText == exportBtn.text
           captured == throwAt # "captureStream"
           sel == SelectFormat(supported)
           created == captured /\ sel # 0 /\ throwAt # "MediaRecorder"
           started == created /\ throwAt # "start"
           c == [NewCall("mp4", duration, originalText) EXCEPT
                   !.stream = IF captured THEN "live" ELSE "none",
                   !.selectedFormat = IF captured THEN sel ELSE 0,
                   !.recorder = IF started THEN "recording"
                                ELSE IF created THEN "inactive" ELSE "none",
                   !.countdown = IF started THEN duration ELSE 0,
                   !.progressInterval = started,
                   !.timer = IF started THEN TimerDelay(duration) ELSE -1,
                   !.pc = IF started THEN "recording" ELSE "failed",
                   !.alerts = IF started THEN @ ELSE Append(@, StartFailedAlert),
                   !.settled = TRUE]
       IN /\ calls' = Append(calls, c)
          \* line 67, and line 194 of the catch block
          /\ isExporting' = started
          /\ exportBtn' = IF started
                          THEN [text |-> RecordingText, disabled |-> TRUE]
                          ELSE [text |-> originalText, disabled |-> FALSE]
          /\ mediaRecorder' = IF created THEN e ELSE mediaRecorder
          /\ recordedChunks' = IF created THEN << >> ELSE recordedChunks
  /\ quota' = quota - 1
  /\ UNCHANGED << supported, fields, controls, settings, currentAnimation, animations, stills >>

\* mutant of OnDataAvailable: the handler without its size test
OnDataAvailableAll(chunks, event) == Append(chunks, event)

\* mediaRecorder.ondataavailable
OnDataAvailable(chunks, event) ==
  IF event.size > 0 THEN Append(chunks, event) ELSE chunks

\* the blob and link of mediaRecorder.onstop of call r
VideoArtifact(r, chunks) ==
  [kind |-> "video",
   type |-> formats[calls[r].selectedFormat].mimeType,
   extension |-> formats[calls[r].selectedFormat].extension,
   parts |-> chunks,
   folderName |-> "",
   entries |-> << >>,
   readme |-> NoReadme]

\* a timeslice chunk of a running recorder (start(200))
DataAvailable(r) ==
  /\ calls[r].recorder = "recording"
  /\ calls[r].delivered < MaxChunks
  /\ \E size \in {0, 1} :
       LET event == [rec |-> r, n |-> calls[r].delivered + 1, size |-> size]
       IN /\ recordedChunks' = OnDataAvailable(recordedChunks, event)
          /\ calls' = [calls EXCEPT ![r].delivered = @ + 1,
                                    ![r].emitted = Append(@, event)]
  /\ UNCHANGED << supported, fields, controls, settings, quota, isExporting, mediaRecorder, exportBtn,
                  currentAnimation, animations, stills >>

\* the interval callback of call e is due: it has run (duration - countdown)
\* times and (duration - timer) seconds have passed
IntervalDue(e) ==
  /\ calls[e].progressInterval
  /\ calls[e].countdown > calls[e].timer

\* one second passes; no timer callback is due
Tick ==
  /\ \E e \in CallIds : calls[e].timer > 0
  /\ \A e \in CallIds : calls[e].timer # 0 /\ ~IntervalDue(e)
  /\ calls' = [e \in CallIds |->
                 [calls[e] EXCEPT !.timer = IF @ > 0 THEN @ - 1 ELSE @]]
  /\ UNCHANGED << supported, fields, controls, settings, quota, isExporting, mediaRecorder, recordedChunks,
                  exportBtn, currentAnimation, animations, stills >>

\* the setInterval callback of call e
ProgressTick(e) ==
  /\ IntervalDue(e)
  /\ LET countdown == calls[e].countdown - 1
     IN /\ exportBtn' = [exportBtn EXCEPT !.text = CountdownText(countdown)]
        /\ calls' = [calls EXCEPT ![e].countdown = countdown,
                                  ![e].progressInterval = ~(countdown <= 0)]
  /\ UNCHANGED << supported, fields, controls, settings, quota, isExporting, mediaRecorder, recordedChunks,
                  currentAnimation, animations, stills >>

\* mutant of TimerStops: the recorder state compared with the wrong value
TimerStopsInactive ==
  /\ mediaRecorder # 0
  /\ calls[mediaRecorder].recorder = "inactive"

\* the test of the setTimeout callback: this.mediaRecorder is set and recording
TimerStops ==
  /\ mediaRecorder # 0
  /\ calls[mediaRecorder].recorder = "recording"

\* the setTimeout callback of call e: it stops this.mediaRecorder and the
\* tracks of the stream of its own closure
StopTimer(e) ==
  /\ calls[e].timer = 0
  /\ ~IntervalDue(e)
  /\ calls' = [i \in CallIds |->
       LET c1 == IF i = e
                 THEN [calls[i] EXCEPT
                         !.timer = -1,
                         !.progressInterval = FALSE,
                         !.stream = IF TimerStops THEN "stopped" ELSE @]
                 ELSE calls[i]
       IN IF TimerStops /\ i = mediaRecorder
          THEN [c1 EXCEPT !.recorder = "inactive", !.stopTask = TRUE]
          ELSE c1]
  /\ UNCHANGED << supported, fields, controls, settings, quota, isExporting, mediaRecorder, recordedChunks,
                  exportBtn, currentAnimation, animations, stills >>

\* the task a recorder queues when stop() is called: the last dataavailable,
\* then mediaRecorder.onstop of call r; `saved` is whether the try block of
\* onstop got as far as link.click()
RecorderStop(r) ==
  /\ calls[r].stopTask
  /\ \E size \in {0, 1}, saved \in BOOLEAN :
       LET chunks == OnDataAvailable(recordedChunks,
                        [rec |-> r, n |-> calls[r].delivered + 1, size |-> size])
       IN /\ recordedChunks' = chunks
          /\ calls' = [calls EXCEPT
               ![r].stopTask = FALSE,
               ![r].delivered = 0,
               ![r].emitted = << >>,
               ![r].artifacts = IF saved THEN Append(@, VideoArtifact(r, chunks)) ELSE @,
               ![r].alerts = IF saved THEN @ ELSE Append(@, SaveFailedAlert),
               ![r].pc = IF saved THEN "done" ELSE "failed"]
  /\ exportBtn' = [text |-> calls[r].originalText, disabled |-> FALSE]
  /\ isExporting' = FALSE
  /\ UNCHANGED << supported, fields, controls, settings, quota, mediaRecorder, currentAnimation, animations, stills >>

\* the recorder of call r fails while recording: it becomes inactive and
\* fires error, dataavailable and stop in one task, so mediaRecorder.onerror,
\* ondataavailable and onstop of call r run back to back
RecorderError(r) ==
  /\ calls[r].recorder = "recording"
  /\ \E size \in {0, 1}, saved \in BOOLEAN :
       LET chunks == OnDataAvailable(recordedChunks,
                        [rec |-> r, n |-> calls[r].delivered + 1, size |-> size])
       IN /\ recordedChunks' = chunks
          /\ calls' = [calls EXCEPT
               ![r].recorder = "inactive",
               ![r].errored = TRUE,
               ![r].delivered = 0,
               ![r].emitted = << >>,
               ![r].artifacts = IF saved THEN Append(@, VideoArtifact(r, chunks)) ELSE @,
               ![r].alerts = IF saved THEN Append(@, RecordingErrorAlert)
                             ELSE @ \o << RecordingErrorAlert, SaveFailedAlert >>,
               ![r].pc = "failed"]
  \* onerror (164-166) and onstop (156-158) assign the same values
  /\ exportBtn' = [text |-> calls[r].originalText, disabled |-> FALSE]
  /\ isExporting' = FALSE
  /\ UNCHANGED << supported, fields, controls, settings, quota, mediaRecorder, currentAnimation, animations, stills >>

\* ------------------------------------------------------- exportPNGSequence

\* renderToCanvas(ctx, frame, totalFrames, duration): renderFrame is called
\* only when an animation is loaded
RenderToCanvas(frame, totalFrames, duration, animation) ==
  [frame |-> frame,
   called |-> animation # "none",
   time |-> FrameTime(frame, totalFrames, duration)]

\* mutant of FrameSteps: the foreground image is drawn under the animation
FrameStepsForegroundFirst(transparent, background, animation, foreground) ==
  << "clearRect" >>
    \o (IF ~transparent
        THEN IF background THEN << "drawImage backgroundImage" >>
             ELSE << "fillRect backgroundColor" >>
        ELSE << >>)
    \o (IF foreground THEN << "drawImage foregroundImage" >> ELSE << >>)
    \o (IF animation # "none" THEN << "renderFrame" >> ELSE << >>)
    \o << "toDataURL" >>

\* mutant of FrameSteps: the background is drawn whatever the mode
FrameStepsBackgroundAlways(transparent, background, animation, foreground) ==
  << "clearRect" >>
    \o (IF background THEN << "drawImage backgroundImage" >>
        ELSE << "fillRect backgroundColor" >>)
    \o (IF animation # "none" THEN << "renderFrame" >> ELSE << >>)
    \o (IF foreground THEN << "drawImage foregroundImage" >> ELSE << >>)
    \o << "toDataURL" >>

\* the calls one iteration of the frame loop makes on the export canvas and
\* on the animation, in the order it makes them
FrameSteps(transparent, background, animation, foreground) ==
  << "clearRect" >>
    \o (IF ~transparent
        THEN IF background THEN << "drawImage backgroundImage" >>
             ELSE << "fillRect backgroundColor" >>
        ELSE << >>)
    \o (IF animation # "none" THEN << "renderFrame" >> ELSE << >>)
    \o (IF foreground THEN << "drawImage foregroundImage" >> ELSE << >>)
    \o << "toDataURL" >>

\* one iteration of the frame loop of call record c, up to frames.push
ComposeFrame(c, frame) ==
  [c EXCEPT
     !.frame = frame,
     !.steps = FrameSteps(isTransparent, backgroundImage, currentAnimation,
                          foregroundImage),
     !.drawSize = [width |-> width, height |-> height],
     !.render = RenderToCanvas(frame, c.totalFrames, c.duration, currentAnimation),
     !.frames = Append(@, frame),
     !.pc = "await"]

\* mutant of ZipEntries: the frames are filed newest first
ZipEntriesNewestFirst(frames) ==
  [k \in 1..Len(frames) |->
     [name |-> FrameFileName(k), frame |-> frames[Len(frames) - k + 1]]]
    \o << [name |-> ReadmeFileName, frame |-> -1] >>

\* the ZIP assembly after the loop: one entry per element of `frames`, then
\* README.txt
ZipEntries(frames) ==
  [k \in 1..Len(frames) |-> [name |-> FrameFileName(k), frame |-> frames[k]]]
    \o << [name |-> ReadmeFileName, frame |-> -1] >>

\* the readmeContent of call record c
Readme(c) ==
  [frames |-> c.totalFrames, duration |-> c.duration, frameRate |-> frameRate,
   alpha |-> isTransparent, width |-> width, height |-> height]

\* folderName, without its timestamp
FolderName(transparent) ==
  IF transparent THEN "canvas-sequence-alpha" ELSE "canvas-sequence"

AssembleZip(c) ==
  [c EXCEPT !.folderName = FolderName(isTransparent),
            !.archive = ZipEntries(c.frames), !.readme = Readme(c), !.pc = "zip"]

\* mutant of SequenceFailed: the catch block does nothing
SequenceFailedSilently(c) == [c EXCEPT !.pc = "failed", !.settled = TRUE]

\* the call has ended: its locals are gone and its promise settles
SequenceEnded(c, pc) ==
  [c EXCEPT !.pc = pc, !.frame = 0, !.frames = << >>, !.render = NoRender,
            !.steps = << >>, !.raster = NoSize, !.drawSize = NoSize,
            !.folderName = "", !.archive = << >>, !.readme = NoReadme,
            !.settled = TRUE]

\* the catch and finally blocks
SequenceFailed(c) ==
  [SequenceEnded(c, "failed") EXCEPT !.alerts = Append(@, SequenceFailedAlert)]

\* the code of exportPNGSequence from the loop test for `frame` to the next
\* await, or to the end of the call when `throws`
RunSequence(c, frame, throws) ==
  IF throws THEN SequenceFailed(c)
  ELSE IF frame < c.totalFrames THEN ComposeFrame(c, frame)
  ELSE AssembleZip(c)

\* #export-btn and isExporting where call record c now waits or has ended
SequenceButton(c) ==
  IF c.pc = "await" THEN [text |-> FrameText(c.frame + 1, c.totalFrames), disabled |-> TRUE]
  ELSE IF c.pc = "zip" THEN [text |-> ZipText, disabled |-> TRUE]
  ELSE [text |-> c.originalText, disabled |-> FALSE]

SequenceGuard(c) == c.pc \in {"await", "zip"}

\* exportPNGSequence(duration), to its first await
ExportPNGSequence(duration) ==
  /\ ~isExporting
  /\ quota > 0
  /\ \E throws \in BOOLEAN :
       LET c0 == [NewCall("png-sequence", duration, exportBtn.text) EXCEPT
                    !.totalFrames = TotalFrames(duration),
                    !.raster = [width |-> width, height |-> height]]
           c == RunSequence(c0, 0, throws)
       IN /\ calls' = Append(calls, c)
          /\ exportBtn' = SequenceButton(c)
          /\ isExporting' = SequenceGuard(c)
  /\ quota' = quota - 1
  /\ UNCHANGED << supported, fields, controls, settings, mediaRecorder, recordedChunks, currentAnimation, animations, stills >>

\* the 16 ms timeout of call e fires: frame++ and the loop goes on
SequenceResume(e) ==
  /\ calls[e].pc = "await"
  /\ \E throws \in BOOLEAN :
       LET c == RunSequence(calls[e], calls[e].frame + 1, throws)
       IN /\ calls' = [calls EXCEPT ![e] = c]
          /\ exportBtn' = SequenceButton(c)
          /\ isExporting' = SequenceGuard(c)
  /\ UNCHANGED << supported, fields, controls, settings, quota, mediaRecorder, recordedChunks,
                  currentAnimation, animations, stills >>

\* the blob and link made once zip.generateAsync has resolved
ZipArtifact(c) ==
  [kind |-> "zip", type |-> "application/zip", extension |-> "zip",
   parts |-> << >>, folderName |-> c.folderName, entries |-> c.archive,
   readme |-> c.readme]

\* zip.generateAsync of call e settles: the download, or the catch block;
\* then the finally block
ZipGenerated(e) ==
  /\ calls[e].pc = "zip"
  /\ \E throws \in BOOLEAN :
       calls' = [calls EXCEPT
         ![e] = IF throws THEN SequenceFailed(@)
                ELSE [SequenceEnded(@, "done") EXCEPT
                        !.artifacts = Append(@, ZipArtifact(calls[e]))]]
  /\ exportBtn' = [text |-> calls[e].originalText, disabled |-> FALSE]
  /\ isExporting' = FALSE
  /\ UNCHANGED << supported, fields, controls, settings, quota, mediaRecorder, recordedChunks,
                  currentAnimation, animations, stills >>

\* ------------------------------------------------ exportPNG, handleExport

\* mutant of StillArtifact: the still is taken from an export canvas
StillFromExportCanvas == [kind |-> "png", type |-> "image/png", source |-> "exportCanvas"]

\* the link exportPNG clicks: the PNG data URL of canvasManager.canvas
StillArtifact == [kind |-> "png", type |-> "image/png", source |-> "canvasManager.canvas"]

\* exportPNG(): no guard, one download of the live canvas
ExportPNG ==
  /\ Len(stills) < MaxStills
  /\ stills' = Append(stills, StillArtifact)
  /\ UNCHANGED << supported, fields, controls, settings, quota, isExporting, mediaRecorder, recordedChunks,
                  exportBtn, currentAnimation, animations, calls >>

\* `if (this.isExporting) return;` of exportMP4 and exportPNGSequence
Ignored ==
  /\ isExporting
  /\ UNCHANGED vars

\* handleExport(): the click on #startExport, with the values of
\* #exportFormat and #exportDuration
HandleExport(format, field) ==
  LET duration == DurationOf(field)
  IN \/ format = "png" /\ ExportPNG
     \/ format = "mp4" /\ (ExportMP4(duration) \/ Ignored)
     \/ format = "png-sequence" /\ (ExportPNGSequence(duration) \/ Ignored)

\* ------------------------------------------------------ animation (main.js)

\* AnimationRegistry.registerBuiltInAnimations
Registered == {"sample"}

\* mutant of Create: an instance is made for whatever id is asked for
CreateAnything(id) == id

\* AnimationRegistry.create(id): the instance, "none" for null
Create(id) == IF id \in Registered THEN id ELSE "none"

\* the instances once loadAnimation has got a new one from create(): both
\* references and the parameter controls are set to it, and setAnimation has
\* called its init()
Installed(a) ==
  [created |-> a.created + 1,
   canvas |-> a.created + 1,
   ui |-> a.created + 1,
   parameterControls |-> a.created + 1,
   inited |-> a.inited \cup {a.created + 1}]

\* AnimationControlUI.loadAnimation(id), CanvasManager.setAnimation
LoadAnimation(id) ==
  /\ "animation" \in controls
  /\ currentAnimation' = IF Create(id) # "none" THEN Create(id) ELSE currentAnimation
  /\ Create(id) # "none" => animations.created < 1 + MaxLoads
  /\ animations' = IF Create(id) # "none" THEN Installed(animations) ELSE animations
  /\ UNCHANGED << supported, fields, controls, settings, quota, isExporting, mediaRecorder, recordedChunks,
                  exportBtn, calls, stills >>

\* AnimationControlUI.clearAnimation()
ClearAnimation ==
  /\ "animation" \in controls
  /\ currentAnimation' = "none"
  /\ animations' = [animations EXCEPT !.canvas = 0, !.ui = 0, !.parameterControls = 0]
  /\ UNCHANGED << supported, fields, controls, settings, quota, isExporting, mediaRecorder, recordedChunks,
                  exportBtn, calls, stills >>

\* ------------------------------------- canvas controls (CanvasManager.js)

\* the controls of the page that change what a frame is built from
Controls == {"animation", "bg-transparency", "bg-image", "fg-image", "size"}

\* the sizes of the preset buttons
Presets == {[width |-> 800, height |-> 600], [width |-> 1920, height |-> 1080]}

\* the values of the #bg-transparency select
TransparencyValues == {"transparent", "opaque"}

\* the change listener of #bg-transparency
SetTransparency(value) ==
  /\ isTransparent' = (value = "transparent")
  /\ UNCHANGED << backgroundImage, foregroundImage, width, height >>

\* img.onload of an uploaded background image, the click on #bg-remove-btn
SetBackgroundImage(set) ==
  /\ backgroundImage' = set
  /\ UNCHANGED << isTransparent, foregroundImage, width, height >>

\* img.onload of an uploaded foreground image, the click on #fg-remove-btn
SetForegroundImage(set) ==
  /\ foregroundImage' = set
  /\ UNCHANGED << isTransparent, backgroundImage, width, height >>

\* the click on a preset button
SetPreset(size) ==
  /\ width' = size.width
  /\ height' = size.height
  /\ UNCHANGED << isTransparent, backgroundImage, foregroundImage >>

\* the user operates canvas control c
CanvasInput(c) ==
  /\ \/ c = "bg-transparency" /\ \E value \in TransparencyValues : SetTransparency(value)
     \/ c = "bg-image" /\ \E set \in BOOLEAN : SetBackgroundImage(set)
     \/ c = "fg-image" /\ \E set \in BOOLEAN : SetForegroundImage(set)
     \/ c = "size" /\ \E size \in Presets : SetPreset(size)
  /\ UNCHANGED << supported, fields, controls, quota, isExporting, mediaRecorder,
                  recordedChunks, exportBtn, currentAnimation, animations, calls, stills >>

\* ---------------------------------------------------------- specifications

\* the page once App.init has run, on one of `hosts`, for a run of `n`
\* asynchronous export calls in which the user operates one of `panels`
InitOn(hosts, values, panels, n) ==
  /\ supported \in hosts
  /\ fields = values
  /\ controls \in panels
  /\ isTransparent = FALSE
  /\ backgroundImage = FALSE
  /\ foregroundImage = FALSE
  /\ width = 800
  /\ height = 600
  /\ animations = Installed([created |-> 0, canvas |-> 0, ui |-> 0,
                             parameterControls |-> 0, inited |-> {}])
  /\ quota = n
  /\ isExporting = FALSE
  /\ mediaRecorder = 0
  /\ recordedChunks = << >>
  /\ exportBtn = [text |-> IdleText, disabled |-> FALSE]
  /\ currentAnimation = "sample"
  /\ calls = << >>
  /\ stills = << >>

\* one control operated per run
OneControl == {{c} : c \in Controls}

Init ==
  \/ InitOn(Hosts, RaceFields, {{}}, MaxExports)
  \/ InitOn(Hosts, {NumberField(1)}, OneControl, MaxExports)

Next ==
  \/ \E format \in ExportFormats, field \in fields : HandleExport(format, field)
  \/ \E e \in CallIds : DataAvailable(e)
  \/ Tick
  \/ \E e \in CallIds : ProgressTick(e)
  \/ \E e \in CallIds : StopTimer(e)
  \/ \E e \in CallIds : RecorderStop(e)
  \/ \E e \in CallIds : RecorderError(e)
  \/ \E e \in CallIds : SequenceResume(e)
  \/ \E e \in CallIds : ZipGenerated(e)
  \/ \E id \in Registered \cup {"missing"} : LoadAnimation(id)
  \/ ClearAnimation
  \/ \E c \in controls : CanvasInput(c)

\* two exports, one after or into the other
Spec == Init /\ [][Next]_vars

\* a page that makes one export, on every host there can be
InitHost == InitOn(SUBSET FormatIds, {NumberField(1)}, OneControl, 1)
SpecHost == InitHost /\ [][Next]_vars

\* a page that makes one export, for every value of the duration field
\* the controls operated together during one export: the background and
\* foreground ones, the animation ones, the size ones
Panels == {{"bg-transparency", "bg-image", "fg-image"}, {"animation"}, {"size"}}

InitSeq == InitOn({FormatIds}, DurationField, Panels, 1)
SpecSeq == InitSeq /\ [][Next]_vars

\* what the event loop runs without the user or the host failing: time
\* passes, due timers fire, queued recorder tasks run, awaited promises settle
Scheduled ==
  \/ Tick
  \/ \E e \in CallIds : ProgressTick(e)
  \/ \E e \in CallIds : StopTimer(e)
  \/ \E e \in CallIds : RecorderStop(e)
  \/ \E e \in CallIds : SequenceResume(e)
  \/ \E e \in CallIds : ZipGenerated(e)

InitFair == InitOn({FormatIds, {}}, {NumberField(1)}, OneControl, MaxExports)
FairSpec == InitFair /\ [][Next]_vars /\ WF_vars(Scheduled)

\* ------------------------------------------------------------------ claims

\* an export call that is not over: a running recorder, a pending stop timer
\* or interval, a queued recorder task, an unfinished frame loop or archive
PendingWork(e) ==
  \/ calls[e].recorder = "recording"
  \/ calls[e].timer >= 0
  \/ calls[e].progressInterval
  \/ calls[e].stopTask
  \/ calls[e].pc \in {"await", "zip"}

\* the artifacts of all calls so far
ArtifactsOf(cs) == [e \in DOMAIN cs |-> cs[e].artifacts]

\* C1: a handleExport request issued while isExporting is true, whatever its
\* format, leaves isExporting, mediaRecorder and recordedChunks as they are
\* and downloads nothing.
C1_ReentrantRequestIgnored ==
  [][\A format \in ExportFormats, field \in fields :
        (isExporting /\ HandleExport(format, field))
          => /\ UNCHANGED << isExporting, mediaRecorder, recordedChunks, stills >>
             /\ ArtifactsOf(calls') = ArtifactsOf(calls)]_vars

\* C2: never two export calls that both still have pending work.
C2_AtMostOneActive ==
  Cardinality({e \in CallIds : PendingWork(e)}) <= 1

\* C6: a call that succeeded has made exactly one download, a call that
\* failed none; a call whose recorder reported an error has made none, also
\* after its stop event.
C6_OneArtifactPerSuccess ==
  \A e \in CallIds :
    /\ calls[e].pc = "done" => Len(calls[e].artifacts) = 1
    /\ calls[e].pc = "failed" => Len(calls[e].artifacts) = 0
    /\ calls[e].errored => calls[e].artifacts = << >>

\* C7: on a host that supports none of the formats, exportMP4 has captured no
\* stream and created no recorder, and downloads nothing.
C7_NoCaptureWhenUnsupported ==
  \A e \in CallIds :
    (calls[e].kind = "mp4" /\ \A i \in FormatIds : i \notin supported)
      => /\ calls[e].stream = "none"
         /\ calls[e].recorder = "none"
         /\ calls[e].artifacts = << >>

\* C8: once a call has failed, isExporting is false until the next call, and
\* a call made after it is not touched by what the failed call left behind:
\* its recorder is stopped by its own timer only, its download holds its own
\* chunks only, and when it is done it has made exactly one download.
C8_CleanAfterFailure ==
  /\ (calls # << >> /\ calls[Len(calls)].pc = "failed") => ~isExporting
  /\ \A f \in CallIds, e \in CallIds :
       (f < e /\ calls[f].pc = "failed")
         => /\ calls[e].stopTask => calls[e].timer = -1
            /\ calls[e].pc = "done" => Len(calls[e].artifacts) = 1
            /\ \A k \in 1..Len(calls[e].artifacts) :
                 \A j \in 1..Len(calls[e].artifacts[k].parts) :
                   calls[e].artifacts[k].parts[j].rec = e

\* C10: a recorder that stop() has stopped was stopped by the timer of its
\* own call, that is duration seconds after it started: that timer is no
\* longer pending.
C10_StoppedByOwnTimer ==
  \A r \in CallIds : calls[r].stopTask => calls[r].timer = -1

\* Math.ceil(num / den) for den > 0
CeilDiv(num, den) == IF num % den = 0 THEN num \div den ELSE num \div den + 1

\* ceil(duration * 60)
ExpectedFrames(duration) == CeilDiv(duration * 60, 1)

\* the fraction t is (i / count) * duration
IsSyntheticTime(t, i, count, duration) == t.num * count = i * duration * t.den

\* the frame indices 0 .. n-1 in ascending order
Ascending(n) == [k \in 1..n |-> k - 1]

Composes(e) ==
  /\ calls'[e].pc = "await"
  /\ e \in DOMAIN calls => calls[e].frame # calls'[e].frame

RECURSIVE DigitsValue(_)
DigitsValue(d) ==
  IF d = << >> THEN 0 ELSE 10 * DigitsValue(SubSeq(d, 1, Len(d) - 1)) + d[Len(d)]

\* the entries of an archive of n frames: frame_0001.png .. frame_<n>.png with
\* 4-digit, strictly increasing numbers, then the one README
GoodArchive(entries, n) ==
  /\ Len(entries) = n + 1
  /\ \A k \in 1..n :
       /\ entries[k].name.stem = "frame_" /\ entries[k].name.ext = ".png"
       /\ Len(entries[k].name.number) = 4
       /\ DigitsValue(entries[k].name.number) = k
       /\ k > 1 => DigitsValue(entries[k - 1].name.number)
                     < DigitsValue(entries[k].name.number)
       /\ entries[k].frame = k - 1
  /\ n >= 1 => entries[1].name.number = << 0, 0, 0, 1 >>
  /\ Cardinality({k \in 1..Len(entries) : entries[k].name = ReadmeFileName}) = 1

\* C5: the archive of a frame sequence, when assembled and when downloaded,
\* holds frame_0001.png, frame_0002.png, ... in this order, frame i under
\* index i + 1, and frameCount + 1 entries: the frames and one manifest.
C5_ArchiveEntries ==
  \A e \in CallIds :
    /\ calls[e].pc = "zip"
         => /\ GoodArchive(calls[e].archive, calls[e].readme.frames)
            /\ calls[e].readme.frames = Len(calls[e].frames)
    /\ \A k \in 1..Len(calls[e].artifacts) :
         calls[e].artifacts[k].kind = "zip"
           => GoodArchive(calls[e].artifacts[k].entries, calls[e].artifacts[k].readme.frames)

\* C9: the recorder of exportMP4 uses the first entry of `formats` the host
\* supports, the download has that entry's MIME type and extension, and on a
\* host that supports video/webm only it is webm.
C9_FormatSelection ==
  \A e \in CallIds :
    calls[e].kind = "mp4" =>
      /\ (calls[e].stream # "none" /\ supported # {}) => calls[e].selectedFormat # 0
      /\ calls[e].recorder # "none" => calls[e].selectedFormat # 0
      /\ calls[e].selectedFormat # 0
           => /\ calls[e].selectedFormat \in supported
              /\ \A j \in 1..(calls[e].selectedFormat - 1) : j \notin supported
      /\ \A k \in 1..Len(calls[e].artifacts) :
           /\ calls[e].artifacts[k].type = formats[calls[e].selectedFormat].mimeType
           /\ calls[e].artifacts[k].extension = formats[calls[e].selectedFormat].extension
           /\ supported = {7} => /\ calls[e].artifacts[k].type = "video/webm"
                                 /\ calls[e].artifacts[k].extension = "webm"
           /\ (supported \cap 1..4 # {}) => calls[e].artifacts[k].extension = "mp4"

\* a video has been downloaded on a host that supports video/webm and one
\* more webm variant, not the first of the list
C9_Witness ==
  \E e \in CallIds :
    /\ supported = {6, 7}
    /\ calls[e].pc = "done"
    /\ Len(calls[e].artifacts) = 1
    /\ calls[e].artifacts[1].extension = "webm"

\* C3: whenever isExporting is true it is false again later, given that time
\* passes, due timers fire, queued recorder tasks run and promises settle.
C3_GuardReleased == isExporting ~> ~isExporting

\* the guard is free again after one export that failed on a recorder error
\* and one that ran to its download
C3_Witness ==
  \E e \in CallIds, f \in CallIds :
    /\ calls[e].errored
    /\ calls[f].pc = "done" /\ ~calls[f].errored
    /\ ~isExporting

\* C11: a video export that has failed, on whichever path, holds no stream
\* whose tracks are still live: the stream it captured has been stopped.
C11_TracksReleasedOnFailure ==
  \A e \in CallIds :
    (calls[e].kind = "mp4" /\ calls[e].pc = "failed") => calls[e].stream # "live"

\* C12: while the last export call is one that failed, #export-btn is enabled
\* and shows the label it had before that call; and every call made after a
\* failed one starts from, and so restores, that same label.
C12_IdleAfterFailure ==
  /\ (calls # << >> /\ calls[Len(calls)].pc = "failed")
       => exportBtn = [text |-> calls[Len(calls)].originalText, disabled |-> FALSE]
  /\ \A f \in CallIds, e \in CallIds :
       (f < e /\ calls[f].pc = "failed") => calls[e].originalText = calls[f].originalText

\* the frame-sequence calls
SequenceCalls == {e \in CallIds : calls[e].kind = "png-sequence"}

\* C13: every frame composed while isTransparent is true is built without a
\* background step: after clearRect neither the background image nor the
\* background colour is drawn; and in opaque mode exactly one of them is.
C13_NoBackgroundWhenTransparent ==
  [][\A e \in DOMAIN calls' :
       Composes(e)
         => LET steps == calls'[e].steps
                drawn == {k \in 1..Len(steps) :
                            steps[k] \in {"drawImage backgroundImage",
                                          "fillRect backgroundColor"}}
            IN /\ steps[1] = "clearRect"
               /\ isTransparent => drawn = {}
               /\ ~isTransparent => drawn = {2}]_vars

\* a frame has been composed in transparent mode while a background image is
\* set, and it is not the first frame: the mode was set during the loop or
\* before it
C13_Witness ==
  \E e \in SequenceCalls :
    /\ calls[e].pc = "await" /\ calls[e].frame >= 1
    /\ isTransparent /\ backgroundImage
    /\ calls[e].steps = << "clearRect", "renderFrame", "toDataURL" >>

\* C14: frames are captured one at a time in ascending index order, nothing
\* that runs between two frames changes the captured frames, and the k-th
\* frame entry of the archive, when assembled and when downloaded, holds the
\* k-th captured frame.
C14_CapturedAndArchivedInOrder ==
  [][\A e \in DOMAIN calls' :
       calls'[e].kind = "png-sequence"
         => LET before == IF e \in DOMAIN calls THEN calls[e] ELSE NewCall("", 0, "")
                after == calls'[e]
            IN /\ Composes(e) => /\ after.frames = Append(before.frames, after.frame)
                                 /\ after.frame = Len(before.frames)
               /\ (after.pc \in {"await", "zip"} /\ ~Composes(e))
                    => after.frames = before.frames
               /\ (after.pc = "zip" /\ before.pc # "zip")
                    => /\ \A k \in 1..(Len(after.frames) - 1) :
                            after.frames[k] < after.frames[k + 1]
                       /\ Len(after.archive) = Len(after.frames) + 1
                       /\ \A k \in 1..Len(after.frames) :
                            after.archive[k].frame = after.frames[k]
               /\ after.artifacts # before.artifacts
                    => /\ before.pc = "zip" /\ Len(after.artifacts) = 1
                       /\ after.artifacts[1].entries = before.archive]_vars

\* the 60 frames of a 1-second export are in the archive, after the user has
\* downloaded a still and set a foreground image
C14_Witness ==
  \E e \in SequenceCalls :
    /\ calls[e].pc = "zip" /\ Len(calls[e].frames) = 60
    /\ calls[e].archive[60].frame = 59
    /\ Len(stills) = 1 /\ foregroundImage

\* the frame entries of an archive
FrameEntries(entries) == {k \in 1..Len(entries) : entries[k].name.stem = "frame_"}

\* the manifest of an archive of an export of `duration` seconds
GoodManifest(readme, entries, duration) ==
  /\ readme.frames = Cardinality(FrameEntries(entries))
  /\ readme.duration = duration
  /\ readme.frameRate = 60
  /\ duration = 2 => /\ Cardinality(FrameEntries(entries)) = 120
                     /\ readme.frames = 120 /\ readme.duration = 2

\* C15: the manifest of an archive, when assembled and when downloaded,
\* records as many frames as the archive has frame entries, the duration the
\* export was called with and frame rate 60; for duration 2 these are 120
\* frames, duration 2, frame rate 60.
C15_Manifest ==
  \A e \in SequenceCalls :
    /\ calls[e].pc = "zip"
         => GoodManifest(calls[e].readme, calls[e].archive, calls[e].duration)
    /\ \A k \in 1..Len(calls[e].artifacts) :
         GoodManifest(calls[e].artifacts[k].readme, calls[e].artifacts[k].entries,
                      calls[e].duration)

\* C16: the step in which a frame-sequence export fails leaves no download
\* of that call, none of its frames or archive entries, #export-btn enabled
\* with the label it had before the call, isExporting false, and the failure
\* message shown once.
C16_SequenceAborts ==
  [][\A e \in DOMAIN calls' :
       ( /\ calls'[e].kind = "png-sequence"
         /\ calls'[e].pc = "failed"
         /\ e \in DOMAIN calls => calls[e].pc # "failed" )
         => /\ calls'[e].artifacts = << >>
            /\ calls'[e].frames = << >>
            /\ calls'[e].archive = << >>
            /\ exportBtn' = [text |-> calls'[e].originalText, disabled |-> FALSE]
            /\ ~isExporting'
            /\ calls'[e].alerts = << SequenceFailedAlert >>]_vars

\* a frame-sequence export has failed and shown its message
C16_Witness ==
  \E e \in SequenceCalls :
    /\ calls[e].pc = "failed"
    /\ calls[e].alerts = << SequenceFailedAlert >>
    /\ ~isExporting /\ ~exportBtn.disabled

\* C17: the promise of an exportMP4 call has settled only when the export is
\* over: the recorder has stopped and the download was made, or the failure
\* was handled.
C17_SettlesWhenOver ==
  \A e \in CallIds :
    (calls[e].kind = "mp4" /\ calls[e].settled) => calls[e].pc \in {"done", "failed"}

\* the events with data among `events`
NonEmpty(events) == SelectSeq(events, LAMBDA event : event.size > 0)

\* C18: while the recorder of a call runs or its stop task is queued,
\* mediaRecorder is that recorder and recordedChunks holds exactly the
\* non-empty chunks it has delivered, in order; the download of the call is
\* made of exactly those, and the last one if it has data.
C18_OwnChunksOnly ==
  [][\A r \in DOMAIN calls' :
       /\ (calls'[r].recorder = "recording" \/ calls'[r].stopTask)
            => /\ mediaRecorder' = r
               /\ recordedChunks' = NonEmpty(calls'[r].emitted)
       /\ (r \in DOMAIN calls /\ calls'[r].artifacts # calls[r].artifacts)
            => LET artifact == calls'[r].artifacts[Len(calls'[r].artifacts)]
                   last == [rec |-> r, n |-> Len(calls[r].emitted) + 1, size |-> 1]
               IN artifact.kind = "video"
                    => /\ calls'[r].artifacts = Append(calls[r].artifacts, artifact)
                       /\ artifact.parts \in {NonEmpty(calls[r].emitted),
                                              NonEmpty(Append(calls[r].emitted, last))}]_vars

\* the second of two video exports has downloaded its own two chunks, the
\* first having failed on a recorder error
C18_Witness ==
  \E f \in CallIds, r \in CallIds :
    /\ f < r /\ calls[f].errored
    /\ calls[r].pc = "done" /\ ~calls[r].errored
    /\ Len(calls[r].artifacts) = 1
    /\ calls[r].artifacts[1].parts
         = << [rec |-> r, n |-> 1, size |-> 1], [rec |-> r, n |-> 2, size |-> 1] >>

\* C19: whenever no export is in flight, mediaRecorder is null and
\* recordedChunks is empty.
C19_SessionReset ==
  (~isExporting /\ \A e \in CallIds : ~PendingWork(e))
    => (mediaRecorder = 0 /\ recordedChunks = << >>)

\* C20: a step that downloads a still downloads exactly one, the PNG of the
\* live canvas, and changes nothing of any export call: no frame is composed,
\* renderFrame is not called, the session is left as it is.
C20_StillExport ==
  [][stills' # stills
       => /\ stills' = Append(stills, [kind |-> "png", type |-> "image/png",
                                       source |-> "canvasManager.canvas"])
          /\ UNCHANGED << calls, isExporting, mediaRecorder, recordedChunks, exportBtn >>]_vars

\* a still has been downloaded while a frame sequence is past its first frame
C20_Witness ==
  \E e \in SequenceCalls :
    /\ Len(stills) = 1
    /\ calls[e].pc = "await" /\ calls[e].frame >= 1

\* C21: every export call that handleExport has started runs with a duration
\* that is a whole number of seconds from 1 to 60.
C21_DurationInRange ==
  \A e \in CallIds : calls[e].duration \in 1..60

\* the place of a step in the order clear, background, animation, foreground,
\* encode; 0 for a call that is none of them, such as the live loop's render
StepRank(step) ==
  CASE step = "clearRect" -> 1
    [] step \in {"drawImage backgroundImage", "fillRect backgroundColor"} -> 2
    [] step = "renderFrame" -> 3
    [] step = "drawImage foregroundImage" -> 4
    [] step = "toDataURL" -> 5
    [] OTHER -> 0

\* the steps of the sequence s that have rank r
Ranked(s, r) == {k \in 1..Len(s) : StepRank(s[k]) = r}

\* C22, as claimed: every frame is built by clearRect first and toDataURL
\* last, with a renderFrame call in between.
C22_RenderFrameEveryFrame ==
  [][\A e \in DOMAIN calls' :
       Composes(e)
         => /\ calls'[e].steps[1] = "clearRect"
            /\ calls'[e].steps[Len(calls'[e].steps)] = "toDataURL"
            /\ Ranked(calls'[e].steps, 3) # {}]_vars

\* C22, amended: every frame is built by steps in the order clear,
\* background, animation, foreground, encode, each at most once: clearRect
\* and toDataURL always; the background step exactly when not transparent,
\* the image if one is set and the colour otherwise; renderFrame, with the
\* synthetic time of the frame, exactly when an animation is loaded; the
\* foreground image exactly when one is set. No other call is made, and frame
\* i + 1 is composed in a later step than the one that encoded frame i.
C22_FrameSteps ==
  [][\A e \in DOMAIN calls' :
       Composes(e)
         => LET steps == calls'[e].steps
            IN /\ \A k \in 1..Len(steps) : StepRank(steps[k]) # 0
               /\ \A k \in 1..(Len(steps) - 1) : StepRank(steps[k]) < StepRank(steps[k + 1])
               /\ Ranked(steps, 1) = {1}
               /\ Ranked(steps, 5) = {Len(steps)}
               /\ (Ranked(steps, 2) # {}) <=> ~isTransparent
               /\ \A k \in Ranked(steps, 2) :
                    (steps[k] = "drawImage backgroundImage") <=> backgroundImage
               /\ (Ranked(steps, 3) # {}) <=> currentAnimation # "none"
               /\ (Ranked(steps, 3) # {}) <=> calls'[e].render.called
               /\ calls'[e].render.frame = calls'[e].frame
               /\ calls'[e].render.time.num * calls'[e].totalFrames
                    = calls'[e].frame * calls'[e].duration * calls'[e].render.time.den
               /\ (Ranked(steps, 4) # {}) <=> foregroundImage
               /\ calls'[e].frame = Len(calls'[e].frames) - 1
               /\ e \in DOMAIN calls => calls'[e].frame = calls[e].frame + 1]_vars

\* a frame after the first has been built by all five steps, over a
\* background image
C22_Witness ==
  \E e \in SequenceCalls :
    /\ calls[e].pc = "await" /\ calls[e].frame >= 1
    /\ calls[e].steps = << "clearRect", "drawImage backgroundImage", "renderFrame",
                           "drawImage foregroundImage", "toDataURL" >>

\* C23: while frames are composed they are drawn at the size of the export
\* canvas, and once the archive of at least one frame is assembled its folder
\* name has the alpha marker and its README the alpha mode exactly if the last
\* frame was built without a background step, and the README has the size of
\* the export canvas, which is the size the last frame was drawn at.
C23_MetadataDescribesFrames ==
  \A e \in SequenceCalls :
    /\ calls[e].pc = "await" => calls[e].drawSize = calls[e].raster
    /\ (calls[e].pc = "zip" /\ calls[e].frames # << >>)
         => /\ calls[e].readme.alpha = (Ranked(calls[e].steps, 2) = {})
            /\ (calls[e].folderName = "canvas-sequence-alpha") = calls[e].readme.alpha
            /\ calls[e].raster
                 = [width |-> calls[e].readme.width, height |-> calls[e].readme.height]
            /\ calls[e].drawSize = calls[e].raster

\* C24: the recorder of a video export is stopped, and its recording
\* completes, only with the tracks of its own stream stopped: the timer that
\* stopped it was the one of its own call.
C24_OwnTimerOwnTracks ==
  \A r \in CallIds :
    (calls[r].kind = "mp4" /\ (calls[r].stopTask \/ calls[r].pc = "done"))
      => calls[r].stream = "stopped"

\* C25: after every step CanvasManager.currentAnimation and
\* AnimationControlUI.currentAnimation refer to the same instance or are both
\* null, and it is an instance of a registered animation; a step that makes
\* an instance installs that new instance, init() called on it, with the
\* parameter controls made for it; a step that makes none and changes a
\* reference is clearAnimation; so a load of an unregistered id changes
\* nothing.
C25_AnimationReferences ==
  [][/\ animations'.ui = animations'.canvas
     /\ (currentAnimation' = "none") <=> (animations'.canvas = 0)
     /\ currentAnimation' \in Registered \cup {"none"}
     /\ animations'.canvas # 0 => animations'.canvas \in animations'.inited
     /\ animations'.created # animations.created
          => /\ animations'.created = animations.created + 1
             /\ animations'.canvas = animations'.created
             /\ animations'.canvas \notin 1..animations.created
             /\ animations'.canvas \notin animations.inited
             /\ animations'.parameterControls = animations'.canvas
             /\ currentAnimation' \in Registered
     /\ (animations'.created = animations.created
           /\ << currentAnimation, animations >>' # << currentAnimation, animations >>)
          => /\ currentAnimation' = "none"
             /\ animations' = [animations EXCEPT !.canvas = 0, !.ui = 0,
                                                 !.parameterControls = 0]]_vars

\* the sample animation has been loaded again: both references are the second
\* instance
C25_Witness ==
  /\ animations.created = 2
  /\ animations.canvas = 2 /\ animations.ui = 2
  /\ currentAnimation = "sample"

====
